---- MODULE Spec2Model ----
(***************************************************************************)
(* Model of the camouflage tile generator (src/main.py).                   *)
(*                                                                         *)
(* Two independent invocations of main() (Runs) work on the same seed and  *)
(* configuration.  Every invocation owns its generator, its shape list     *)
(* and its outputs.  One action is one straight-line block or one loop     *)
(* iteration of the source.                                                *)
(*                                                                         *)
(* Numbers.  The source computes with floats.  Here a coordinate is an     *)
(* integer number of pixels, a probability or factor is an integer         *)
(* percentage, an angle an integer number of degrees, and every float      *)
(* division becomes an integer division.  random.Random(seed) is a         *)
(* deterministic generator: a 16-bit linear congruential generator stands  *)
(* in for it, and every draw of the source advances it once, in the order  *)
(* of the source.  A local value that later steps depend on is bound by    *)
(* \E over a one-element set in the actions, and passed as an operator      *)
(* argument between operators.                                             *)
(***************************************************************************)
EXTENDS Integers, Sequences, FiniteSets, TLC

(***************************************************************************)
(* Bounds of the model.                                                    *)
(***************************************************************************)
MaxSeed == 15         \* seeds tried by a single invocation
MaxSeedTwice == 1     \* seeds tried by two invocations side by side
MaxMacro == 5         \* largest --macro
MaxMicro == 2         \* largest --micro
MaxNegCount == 2      \* --macro goes down to -MaxNegCount, --micro to -1
MaxTileMm == 2        \* largest --tile-mm

Runs == {1, 2}
Seeds == 0..MaxSeed
SeedsTwice == 0..MaxSeedTwice
MacroCounts == (0 - MaxNegCount)..MaxMacro
MicroCounts == (0 - 1)..MaxMicro
TileMms == 1..MaxTileMm
\* px_per_mm is a float option; the model holds it as a number of halves
PxDen == 2
PxPerMms == {1, 2}

VARIABLES
    seed, tile_mm, px_per_mm, macro_count, micro_count,   \* args of main()
    pc,              \* position of each run in main()/generate_camo()
    rng,             \* state of the run's random.Random
    W,               \* tile side in px
    counts,          \* n_mid, n_big, n_huge
    macro_sizes_mm,  \* shuffled list of (a_mm, b_mm)
    mi,              \* macro items already placed
    ki,              \* micro iterations already started
    shapes,          \* the run's shape list
    tgt,             \* last anchor target of the micro loop (index, z)
    png, svg,        \* what the two renderers drew
    report,          \* lines of the summary
    err,             \* exception that ended the run, "" if none
    h_in, h_out      \* argument and outcome of a hex_to_rgb call

cfgvars == <<seed, tile_mm, px_per_mm, macro_count, micro_count>>
runvars == <<pc, rng, W, counts, macro_sizes_mm, mi, ki, shapes, tgt, png, svg, report, err>>
hexvars == <<h_in, h_out>>
vars == <<cfgvars, runvars, hexvars>>

(***************************************************************************)
(* Arithmetic of the source.                                               *)
(***************************************************************************)
Abs(x) == IF x < 0 THEN 0 - x ELSE x

\* Python round(num/den), den > 0: nearest integer, ties to the even one
PyRound(num, den) ==
    LET q == num \div den
        r == num - q * den
    IN  IF 2 * r < den THEN q
        ELSE IF 2 * r > den THEN q + 1
        ELSE IF q % 2 = 0 THEN q ELSE q + 1

RECURSIVE SqrtLoop(_, _, _)
SqrtLoop(lo, hi, n) ==
    IF lo >= hi THEN lo
    ELSE LET mid == (lo + hi + 1) \div 2
         IN  IF mid * mid <= n THEN SqrtLoop(mid, hi, n) ELSE SqrtLoop(lo, mid - 1, n)

\* math.hypot(vx, vy), truncated
Hypot(vx, vy) == SqrtLoop(0, Abs(vx) + Abs(vy), vx * vx + vy * vy)

\* math.sin of an angle in degrees, times TrigScale (Bhaskara's rational form)
TrigScale == 1000
SinDeg(a) ==
    LET x == a % 360
        h == IF x > 180 THEN x - 180 ELSE x
        p == h * (180 - h)
        s == (4 * TrigScale * p) \div (40500 - p)
    IN  IF x > 180 THEN 0 - s ELSE s
CosDeg(a) == SinDeg(a + 90)

(***************************************************************************)
(* random.Random: the stream and the draws the source makes from it.       *)
(***************************************************************************)
RngMod == 65536
RngMul == 25173
RngInc == 13849
RngRange == 256

\* generator states a generator constructed as random.Random(s) can start in,
\* faulty variant: random.Random() seeds itself from the operating system
Random_unseeded(s) == 0..1

Random(s) == {s % RngMod}

\* one step of the stream: new state g and a value u, u / RngRange in [0, 1)
Draw(g0) ==
    LET s == (g0 * RngMul + RngInc) % RngMod
    IN  [g |-> s, u |-> s \div (RngMod \div RngRange)]

\* rng.uniform(a, b) = a + (b - a) * random()
uniform(g0, a, b) ==
    LET d == Draw(g0) IN [g |-> d.g, v |-> a + ((b - a) * d.u) \div RngRange]

\* rng.randrange(0, n); an empty range raises ValueError
randrange(g0, n) ==
    LET d == Draw(g0)
    IN  IF n <= 0 THEN [g |-> g0, v |-> 0, ok |-> FALSE]
        ELSE [g |-> d.g, v |-> (d.u * n) \div RngRange, ok |-> TRUE]

\* rng.randint(a, b), both ends included
randint(g0, a, b) ==
    LET d == randrange(g0, b - a + 1) IN [g |-> d.g, v |-> a + d.v]

\* rng.random() < p, p in percent
random_lt(g0, pct) ==
    LET d == Draw(g0) IN [g |-> d.g, v |-> d.u * 100 < pct * RngRange]

Swap(x, i, j) == [x EXCEPT ![i] = x[j], ![j] = x[i]]

\* rng.shuffle(x): for i in reversed(range(1, len(x))): j = randbelow(i + 1); swap
RECURSIVE ShuffleLoop(_, _, _)
ShuffleLoop(g0, x, i) ==
    IF i < 1 THEN [g |-> g0, v |-> x]
    ELSE LET d == randrange(g0, i + 1)
         IN  ShuffleLoop(d.g, Swap(x, i + 1, d.v + 1), i - 1)
shuffle(g0, x) == ShuffleLoop(g0, x, Len(x) - 1)

(***************************************************************************)
(* Geometry utilities.                                                     *)
(***************************************************************************)
RECURSIVE AreaLoop(_, _, _)
AreaLoop(poly, i, s) ==
    IF i > Len(poly) THEN s
    ELSE LET p == poly[i]
             q == poly[(i % Len(poly)) + 1]
         IN  AreaLoop(poly, i + 1, s + p[1] * q[2] - q[1] * p[2])

\* shoelace area
polygon_area(poly) == Abs(AreaLoop(poly, 1, 0)) \div 2

rotate_points(poly, angle) ==
    LET ca == CosDeg(angle)
        sa == SinDeg(angle)
    IN  [i \in 1..Len(poly) |->
            << (poly[i][1] * ca - poly[i][2] * sa) \div TrigScale,
               (poly[i][1] * sa + poly[i][2] * ca) \div TrigScale >>]

translate_points(poly, dx, dy) ==
    [i \in 1..Len(poly) |-> << poly[i][1] + dx, poly[i][2] + dy >>]

\* unit normal (-vy / L, vx / L) of an edge, times TrigScale; L = hypot + 1e-9
Normal(vx, vy) ==
    LET L == Hypot(vx, vy)
    IN  IF L = 0 THEN <<0, 0>>
        ELSE << ((0 - vy) * TrigScale) \div L, (vx * TrigScale) \div L >>

(***************************************************************************)
(* random_blob                                                             *)
(***************************************************************************)
\* first loop: n radial base points; st = [g, v] is the generator and pts so far
RECURSIVE BasePts(_, _, _)
BasePts(st, n, base_r) ==
    IF Len(st.v) >= n THEN st
    ELSE LET i  == Len(st.v)
             da == uniform(st.g, 0 - 18, 18)
             a  == (360 * i) \div n + da.v
             dr == uniform(da.g, 62, 105)
             r  == (base_r * dr.v) \div 100
         IN  BasePts([g |-> dr.g,
                      v |-> Append(st.v, << (CosDeg(a) * r) \div TrigScale,
                                            (SinDeg(a) * r) \div TrigScale >>)],
                     n, base_r)

\* inner loop of the second pass: the k perturbed points of the edge p1-p2;
\* st = [g, v, j] is the generator, dent so far and the loop variable
RECURSIVE JagPts(_, _, _, _, _, _)
JagPts(st, p1, p2, k, base_r, jag_amp) ==
    IF st.j > k THEN st
    ELSE LET j  == st.j
             mx == p1[1] + ((p2[1] - p1[1]) * j) \div (k + 1)
             my == p1[2] + ((p2[2] - p1[2]) * j) \div (k + 1)
             nrm == Normal(p2[1] - p1[1], p2[2] - p1[2])
             da == uniform(st.g, jag_amp[1], jag_amp[2])
             amp == (base_r * da.v) \div 100
             ds == random_lt(da.g, 50)
             sign == IF ds.v THEN 0 - 1 ELSE 1
         IN  JagPts([g |-> ds.g,
                     v |-> Append(st.v, << mx + (nrm[1] * amp * sign) \div TrigScale,
                                           my + (nrm[2] * amp * sign) \div TrigScale >>),
                     j |-> j + 1],
                    p1, p2, k, base_r, jag_amp)

\* second pass: every base point followed by the perturbed points of its edge;
\* st = [g, v, i] is the generator, dent so far and the loop variable
DentNext(jp, i) == [g |-> jp.g, v |-> jp.v, i |-> i]

RECURSIVE Dent(_, _, _, _, _)
Dent(st, pts, base_r, jag_subdiv, jag_amp) ==
    IF st.i >= Len(pts) THEN st
    ELSE LET p1 == pts[st.i + 1]
             p2 == pts[((st.i + 1) % Len(pts)) + 1]
             dk == randint(st.g, jag_subdiv[1], jag_subdiv[2])
         IN  Dent(DentNext(JagPts([g |-> dk.g, v |-> Append(st.v, p1), j |-> 1],
                                  p1, p2, dk.v, base_r, jag_amp),
                           st.i + 1),
                  pts, base_r, jag_subdiv, jag_amp)

\* random_blob from the second pass on: bp = [g, v] holds the base points
BlobDent(bp, base_r, jag_subdiv, jag_amp) ==
    Dent([g |-> bp.g, v |-> <<>>, i |-> 0], bp.v, base_r, jag_subdiv, jag_amp)

\* random_blob from the first loop on: db = [g, v] holds base_r
BlobBase(n, db, jag_subdiv, jag_amp) ==
    BlobDent(BasePts([g |-> db.g, v |-> <<>>], n, db.v), db.v, jag_subdiv, jag_amp)

\* random_blob from the draw of base_r on: dn = [g, v] holds n
BlobRadius(dn, r_min, r_max, jag_subdiv, jag_amp) ==
    BlobBase(dn.v, uniform(dn.g, r_min, r_max), jag_subdiv, jag_amp)

\* result [g, v]: the generator after the call and the polygon dent
random_blob(g0, r_min, r_max, n_base, jag_subdiv, jag_amp) ==
    BlobRadius(randint(g0, n_base[1], n_base[2]), r_min, r_max, jag_subdiv, jag_amp)

(***************************************************************************)
(* Palette and shapes.                                                     *)
(***************************************************************************)
C1_COYOTE == <<"#", "8", "1", "6", "1", "3", "C">>
C2_TERRE  == <<"#", "7", "C", "6", "D", "6", "6">>
C3_OLIVE  == <<"#", "4", "B", "5", "3", "2", "0">>
C4_VERDIG == <<"#", "7", "A", "8", "B", "7", "A">>

PALETTE == [C1 |-> C1_COYOTE, C2 |-> C2_TERRE, C3 |-> C3_OLIVE, C4 |-> C4_VERDIG]

\* target proportions, in tenths of a percent
TARGET_RATIO == [C1 |-> 320, C3 |-> 280, C2 |-> 220, C4 |-> 180]

Shape(poly, color_key, z) == [poly |-> poly, color_key |-> color_key, z |-> z]

(***************************************************************************)
(* generate_camo: the straight-line head.                                  *)
(***************************************************************************)
\* [x] * n of Python: empty for n <= 0
Repeat(x, n) == IF n <= 0 THEN <<>> ELSE [i \in 1..n |-> x]

\* faulty variant: ties rounded up instead of to the even neighbour
NMid_halfup(m) == (m * 50 + 50) \div 100

NMid(m) == PyRound(m * 50, 100)

NBig(m) == PyRound(m * 30, 100)

\* faulty variant: the third class rounded on its own instead of taking the remainder
NHuge_rounded(m) == PyRound(m * 20, 100)

NHuge(m) == m - NMid(m) - NBig(m)

TilePx(tmm, pxm) == PyRound(tmm * pxm, PxDen)

MacroSizes(m) ==
    Repeat(<<50, 60>>, NMid(m)) \o Repeat(<<70, 80>>, NBig(m)) \o Repeat(<<90, 110>>, NHuge(m))

(***************************************************************************)
(* generate_camo: one iteration of the macro loop.                         *)
(***************************************************************************)
SizeClass(sz) == IF sz = <<50, 60>> THEN "mid" ELSE IF sz = <<70, 80>> THEN "big" ELSE "huge"

macro_color(g0, size_class) ==
    IF size_class \in {"big", "huge"}
    THEN LET d == random_lt(g0, 55) IN [g |-> d.g, v |-> IF d.v THEN "C1" ELSE "C3"]
    ELSE LET d == random_lt(g0, 70) IN [g |-> d.g, v |-> IF d.v THEN "C3" ELSE "C1"]

ScalePoints(poly, sx, sy) ==
    [i \in 1..Len(poly) |-> << (poly[i][1] * sx) \div 100, (poly[i][2] * sy) \div 100 >>]

\* r_min = a_mm * px_per_mm * 0.50, r_max = b_mm * px_per_mm * 0.60
MacroRMin(sz, pxm) == (sz[1] * pxm * 50) \div (PxDen * 100)
MacroRMax(sz, pxm) == (sz[2] * pxm * 60) \div (PxDen * 100)

(***************************************************************************)
(* generate_camo: one iteration of the micro loop.                         *)
(***************************************************************************)
\* faulty variant: the secondary micro role taken from the macro roles
micro_color_macro(g0) ==
    LET d == random_lt(g0, 68) IN [g |-> d.g, v |-> IF d.v THEN "C4" ELSE "C3"]

micro_color(g0) ==
    LET d == random_lt(g0, 68) IN [g |-> d.g, v |-> IF d.v THEN "C4" ELSE "C2"]

\* r_min = micro_mm * px_per_mm * 0.35, r_max = micro_mm * px_per_mm * 0.55
MicroRMin(micro_mm, pxm) == (micro_mm * pxm * 35) \div (PxDen * 100)
MicroRMax(micro_mm, pxm) == (micro_mm * pxm * 55) \div (PxDen * 100)

\* point at parameter t (percent) on the segment p1-p2
Along(p1, p2, t) == << p1[1] + ((p2[1] - p1[1]) * t) \div 100,
                       p1[2] + ((p2[2] - p1[2]) * t) \div 100 >>

\* p + n * d for a normal n scaled by TrigScale
Pushed(p, nrm, d) == << p[1] + (nrm[1] * d) \div TrigScale, p[2] + (nrm[2] * d) \div TrigScale >>

\* bite = uniform(-1.1, 1.1) * (micro_mm * px_per_mm * 0.55)
Bite(u, micro_mm, pxm) == (u * ((micro_mm * pxm * 55) \div (PxDen * 100))) \div 100

\* push = uniform(0.8, 1.4) * (micro_mm * px_per_mm)
Push(u, micro_mm, pxm) == (u * ((micro_mm * pxm) \div PxDen)) \div 100

(***************************************************************************)
(* shapes.sort(key=lambda s: s.z): a stable sort.                          *)
(***************************************************************************)
\* insertion of s behind every element whose key is not greater (dir = 1),
\* not smaller (dir = -1)
RECURSIVE InsertBy(_, _, _)
InsertBy(sorted, s, dir) ==
    IF sorted = <<>> THEN <<s>>
    ELSE IF dir * s.z < dir * sorted[Len(sorted)].z
         THEN Append(InsertBy(SubSeq(sorted, 1, Len(sorted) - 1), s, dir), sorted[Len(sorted)])
         ELSE Append(sorted, s)

RECURSIVE SortLoop(_, _, _, _)
SortLoop(xs, i, acc, dir) ==
    IF i > Len(xs) THEN acc ELSE SortLoop(xs, i + 1, InsertBy(acc, xs[i], dir), dir)

\* faulty variant: the sort runs with reverse=True
SortByZ_reversed(xs) == SortLoop(xs, 1, <<>>, 0 - 1)

SortByZ(xs) == SortLoop(xs, 1, <<>>, 1)

(***************************************************************************)
(* hex_to_rgb.  A string is a sequence of one-character strings.           *)
(***************************************************************************)
Whitespace == {" "}
UpperChars == <<"A", "B", "C", "D", "E", "F">>
LowerChars == <<"a", "b", "c", "d", "e", "f">>
HexDigits == <<"0", "1", "2", "3", "4", "5", "6", "7", "8", "9", "a", "b", "c", "d", "e", "f">>

IndexOf(seq, c) == IF \E i \in 1..Len(seq) : seq[i] = c
                   THEN CHOOSE i \in 1..Len(seq) : seq[i] = c ELSE 0

\* str.lower
LowerChar(c) == IF IndexOf(UpperChars, c) > 0 THEN LowerChars[IndexOf(UpperChars, c)] ELSE c
Lower(h) == [i \in 1..Len(h) |-> LowerChar(h[i])]

\* str.strip
RECURSIVE Strip(_)
Strip(h) ==
    IF h = <<>> THEN h
    ELSE IF h[1] \in Whitespace THEN Strip(SubSeq(h, 2, Len(h)))
    ELSE IF h[Len(h)] \in Whitespace THEN Strip(SubSeq(h, 1, Len(h) - 1))
    ELSE h

IsHexDigit(c) == IndexOf(HexDigits, LowerChar(c)) > 0

RECURSIVE DigitsValue(_, _)
DigitsValue(ds, acc) ==
    IF ds = <<>> THEN acc
    ELSE DigitsValue(SubSeq(ds, 2, Len(ds)), acc * 16 + IndexOf(HexDigits, LowerChar(ds[1])) - 1)

\* int(s, 16) on a slice of at most two characters: surrounding whitespace
\* is dropped, one sign is accepted, the rest must be hex digits
PyInt16(s) ==
    LET t    == Strip(s)
        sgn  == IF t # <<>> /\ t[1] = "-" THEN 0 - 1 ELSE 1
        body == IF t # <<>> /\ t[1] \in {"+", "-"} THEN SubSeq(t, 2, Len(t)) ELSE t
    IN  IF body # <<>> /\ \A i \in 1..Len(body) : IsHexDigit(body[i])
        THEN [ok |-> TRUE, v |-> sgn * DigitsValue(body, 0)]
        ELSE [ok |-> FALSE, v |-> 0]

\* h[a:b] of Python, 0-based, end excluded, clipped to the string
Slice(h, a, b) == SubSeq(h, a + 1, IF b > Len(h) THEN Len(h) ELSE b)

hex_to_rgb(h0) ==
    LET h  == Lower(Strip(h0))
        c1 == PyInt16(Slice(h, 1, 3))
        c2 == PyInt16(Slice(h, 3, 5))
        c3 == PyInt16(Slice(h, 5, 7))
    IN  IF ~(h # <<>> /\ h[1] = "#") \/ Len(h) # 7
        THEN [ok |-> FALSE, err |-> "ValueError", v |-> <<>>]
        ELSE IF c1.ok /\ c2.ok /\ c3.ok
        THEN [ok |-> TRUE, err |-> "", v |-> <<c1.v, c2.v, c3.v>>]
        ELSE [ok |-> FALSE, err |-> "ValueError", v |-> <<>>]

(***************************************************************************)
(* Rendering and summary.                                                  *)
(***************************************************************************)
\* faulty variant: the vertical shift taken from the horizontal loop variable
wrapped_instances_dxdx(poly, Wv, Hv) ==
    LET dxs == <<0 - Wv, 0, Wv>>
    IN  [n \in 1..9 |->
            [i \in 1..Len(poly) |->
                << poly[i][1] + dxs[((n - 1) \div 3) + 1], poly[i][2] + dxs[((n - 1) \div 3) + 1] >>]]

\* for dx in (-W, 0, W): for dy in (-H, 0, H): append the shifted copy
wrapped_instances(poly, Wv, Hv) ==
    LET dxs == <<0 - Wv, 0, Wv>>
        dys == <<0 - Hv, 0, Hv>>
    IN  [n \in 1..9 |->
            [i \in 1..Len(poly) |->
                << poly[i][1] + dxs[((n - 1) \div 3) + 1], poly[i][2] + dys[((n - 1) % 3) + 1] >>]]

RECURSIVE Flatten(_)
Flatten(ss) == IF ss = <<>> THEN <<>> ELSE Head(ss) \o Flatten(Tail(ss))

\* one draw.polygon call: pts = [(int(round(x)), int(round(y))) ...], fill = rgb
PngPolygon(poly, rgb) ==
    [pts  |-> [i \in 1..Len(poly) |-> << PyRound(poly[i][1], 1), PyRound(poly[i][2], 1) >>],
     fill |-> rgb]

PngShape(inst, rgb) == [n \in 1..Len(inst) |-> PngPolygon(inst[n], rgb)]

\* the draw.polygon calls of render_png, in order
PngPolygons(shp, Wv) ==
    Flatten([k \in 1..Len(shp) |->
        PngShape(wrapped_instances(shp[k].poly, Wv, Wv),
                 hex_to_rgb(PALETTE[shp[k].color_key]).v)])

SvgShape(inst, fill) ==
    [n \in 1..Len(inst) |-> [tag |-> "polygon", points |-> inst[n], fill |-> fill]]

\* the <polygon> elements of render_svg, in order
SvgPolygons(shp, Wv) ==
    Flatten([k \in 1..Len(shp) |->
        SvgShape(wrapped_instances(shp[k].poly, Wv, Wv), PALETTE[shp[k].color_key])])

RECURSIVE AreaSum(_, _, _)
AreaSum(shp, i, keys) ==
    IF i > Len(shp) THEN 0
    ELSE (IF shp[i].color_key \in keys THEN polygon_area(shp[i].poly) ELSE 0)
         + AreaSum(shp, i + 1, keys)

\* faulty variant: the division without its guard; x / 0 raises ZeroDivisionError
Ratio_unguarded(area, total_area) ==
    IF total_area = 0 THEN [ok |-> FALSE, v |-> 0]
    ELSE [ok |-> TRUE, v |-> PyRound(area * 1000, total_area)]

\* area_by[k] / total_area if total_area > 0 else 0.0, as printed: tenths of a percent
Ratio(area, total_area) ==
    IF total_area > 0 THEN [ok |-> TRUE, v |-> PyRound(area * 1000, total_area)]
    ELSE [ok |-> TRUE, v |-> 0]

ReportOrder == <<"C1", "C3", "C2", "C4">>
RoleKeys == {"C1", "C2", "C3", "C4"}

ReportLine(k, q, total_area) ==
    [key |-> k, hex |-> PALETTE[k], ok |-> q.ok, ratio |-> q.v,
     target |-> TARGET_RATIO[k], total |-> total_area]

ReportFor(shp, total_area) ==
    [n \in 1..Len(ReportOrder) |->
        ReportLine(ReportOrder[n], Ratio(AreaSum(shp, 1, {ReportOrder[n]}), total_area),
                   total_area)]

ReportLines(shp) == ReportFor(shp, AreaSum(shp, 1, RoleKeys))

(***************************************************************************)
(* State machine.                                                          *)
(***************************************************************************)
NoTarget == [i |-> 0 - 1, z |-> 0]
NoImage == [size |-> <<0, 0>>, bg |-> <<>>, polys |-> <<>>]
NoCall == [called |-> FALSE, ok |-> FALSE, err |-> "", v |-> <<>>]

RunInit(started) ==
    /\ pc = [r \in Runs |-> IF r \in started THEN "start" ELSE "off"]
    /\ rng = [r \in Runs |-> 0]
    /\ W = [r \in Runs |-> 0]
    /\ counts = [r \in Runs |-> [n_mid |-> 0, n_big |-> 0, n_huge |-> 0]]
    /\ macro_sizes_mm = [r \in Runs |-> <<>>]
    /\ mi = [r \in Runs |-> 0]
    /\ ki = [r \in Runs |-> 0]
    /\ shapes = [r \in Runs |-> <<>>]
    /\ tgt = [r \in Runs |-> NoTarget]
    /\ png = [r \in Runs |-> NoImage]
    /\ svg = [r \in Runs |-> <<>>]
    /\ report = [r \in Runs |-> <<>>]
    /\ err = [r \in Runs |-> ""]

ConfigInit(seeds) ==
    /\ seed \in seeds
    /\ tile_mm \in TileMms
    /\ px_per_mm \in PxPerMms
    /\ macro_count \in MacroCounts
    /\ micro_count \in MicroCounts

\* main() is started once
Init ==
    /\ ConfigInit(Seeds)
    /\ RunInit({1})
    /\ h_in = <<>>
    /\ h_out = NoCall

\* main() is started twice with the same command line
InitTwice ==
    /\ ConfigInit(SeedsTwice)
    /\ RunInit(Runs)
    /\ h_in = <<>>
    /\ h_out = NoCall

\* generate_camo up to the shuffle
Setup(r) ==
    /\ pc[r] = "start"
    /\ \E g0 \in Random(seed) :
       \E sh \in {shuffle(g0, MacroSizes(macro_count))} :
          /\ rng' = [rng EXCEPT ![r] = sh.g]
          /\ macro_sizes_mm' = [macro_sizes_mm EXCEPT ![r] = sh.v]
    /\ W' = [W EXCEPT ![r] = TilePx(tile_mm, px_per_mm)]
    /\ counts' = [counts EXCEPT ![r] = [n_mid |-> NMid(macro_count), n_big |-> NBig(macro_count),
                                        n_huge |-> NHuge(macro_count)]]
    /\ pc' = [pc EXCEPT ![r] = "generate"]
    /\ UNCHANGED <<cfgvars, hexvars, mi, ki, shapes, tgt, png, svg, report, err>>

\* one iteration of: for (a_mm, b_mm) in macro_sizes_mm
MacroStep(r) ==
    /\ pc[r] = "generate"
    /\ mi[r] < Len(macro_sizes_mm[r])
    /\ \E sz    \in {macro_sizes_mm[r][mi[r] + 1]} :
       \E poly0 \in {random_blob(rng[r], MacroRMin(sz, px_per_mm), MacroRMax(sz, px_per_mm),
                                 <<7, 13>>, <<1, 3>>, <<10, 30>>)} :
       \E ang   \in {uniform(poly0.g, 0, 360)} :
       \E poly1 \in {rotate_points(poly0.v, ang.v)} :
       \E sx    \in {uniform(ang.g, 75, 135)} :
       \E sy    \in {uniform(sx.g, 75, 135)} :
       \E poly2 \in {ScalePoints(poly1, sx.v, sy.v)} :
       \E cx    \in {uniform(sy.g, 0, W[r])} :
       \E cy    \in {uniform(cx.g, 0, W[r])} :
       \E poly  \in {translate_points(poly2, cx.v, cy.v)} :
       \E color_key \in {macro_color(cy.g, SizeClass(sz))} :
          /\ rng' = [rng EXCEPT ![r] = color_key.g]
          /\ shapes' = [shapes EXCEPT ![r] = Append(@, Shape(poly, color_key.v, 10))]
    /\ mi' = [mi EXCEPT ![r] = @ + 1]
    /\ UNCHANGED <<cfgvars, hexvars, pc, W, counts, macro_sizes_mm, ki, tgt, png, svg, report, err>>

\* the rest of a micro iteration once the target index is drawn
MicroPlace(r, micro_mm, micro1, dtgt) ==
    \E tg       \in {shapes[r][dtgt.v + 1]} :
    \E tgt_poly \in {tg.poly} :
    \E k    \in {randrange(dtgt.g, Len(tgt_poly))} :
    \E p1   \in {tgt_poly[k.v + 1]} :
    \E p2   \in {tgt_poly[((k.v + 1) % Len(tgt_poly)) + 1]} :
    \E t    \in {uniform(k.g, 15, 85)} :
    \E p    \in {Along(p1, p2, t.v)} :
    \E nrm  \in {Normal(p2[1] - p1[1], p2[2] - p1[2])} :
    \E bite \in {uniform(t.g, 0 - 110, 110)} :
    \E pb   \in {Pushed(p, nrm, Bite(bite.v, micro_mm, px_per_mm))} :
    \E cross \in {random_lt(bite.g, 20)} :
    \E push \in {IF cross.v THEN uniform(cross.g, 80, 140) ELSE [g |-> cross.g, v |-> 0]} :
    \E p2nd \in {IF cross.v THEN Pushed(pb, nrm, Push(push.v, micro_mm, px_per_mm)) ELSE pb} :
    \E micro \in {translate_points(micro1, p2nd[1], p2nd[2])} :
    \E color_key \in {micro_color(push.g)} :
       /\ rng' = [rng EXCEPT ![r] = color_key.g]
       /\ shapes' = [shapes EXCEPT ![r] = Append(@, Shape(micro, color_key.v, 30))]
       /\ tgt' = [tgt EXCEPT ![r] = [i |-> dtgt.v, z |-> tg.z]]
       /\ UNCHANGED <<pc, err>>

\* one iteration of: for _ in range(micro_count)
MicroStep(r) ==
    /\ pc[r] = "generate"
    /\ mi[r] = Len(macro_sizes_mm[r])
    /\ ki[r] < micro_count
    /\ \E micro_mm \in {uniform(rng[r], 8, 25)} :
       \E micro0 \in {random_blob(micro_mm.g, MicroRMin(micro_mm.v, px_per_mm),
                                  MicroRMax(micro_mm.v, px_per_mm),
                                  <<6, 10>>, <<1, 2>>, <<12, 28>>)} :
       \E ang    \in {uniform(micro0.g, 0, 360)} :
       \E micro1 \in {rotate_points(micro0.v, ang.v)} :
       \E dtgt   \in {randrange(ang.g, Len(shapes[r]))} :
          IF dtgt.ok
          THEN MicroPlace(r, micro_mm.v, micro1, dtgt)
          ELSE /\ pc' = [pc EXCEPT ![r] = "raised"]
               /\ err' = [err EXCEPT ![r] = "ValueError"]
               /\ rng' = [rng EXCEPT ![r] = ang.g]
               /\ UNCHANGED <<shapes, tgt>>
    /\ ki' = [ki EXCEPT ![r] = @ + 1]
    /\ UNCHANGED <<cfgvars, hexvars, W, counts, macro_sizes_mm, mi, png, svg, report>>

\* shapes.sort(key=lambda s: s.z); return W, shapes
Sort(r) ==
    /\ pc[r] = "generate"
    /\ mi[r] = Len(macro_sizes_mm[r])
    /\ ki[r] >= micro_count
    /\ shapes' = [shapes EXCEPT ![r] = SortByZ(@)]
    /\ pc' = [pc EXCEPT ![r] = "render_png"]
    /\ UNCHANGED <<cfgvars, hexvars, rng, W, counts, macro_sizes_mm, mi, ki, tgt, png, svg, report, err>>

RenderPng(r) ==
    /\ pc[r] = "render_png"
    /\ png' = [png EXCEPT ![r] = [size |-> <<W[r], W[r]>>, bg |-> hex_to_rgb(C3_OLIVE).v,
                                  polys |-> PngPolygons(shapes[r], W[r])]]
    /\ pc' = [pc EXCEPT ![r] = "render_svg"]
    /\ UNCHANGED <<cfgvars, hexvars, rng, W, counts, macro_sizes_mm, mi, ki, shapes, tgt, svg, report, err>>

RenderSvg(r) ==
    /\ pc[r] = "render_svg"
    /\ svg' = [svg EXCEPT ![r] =
                 << [tag |-> "svg", width |-> W[r], height |-> W[r]],
                    [tag |-> "rect", width |-> W[r], height |-> W[r], fill |-> C3_OLIVE] >>
                 \o SvgPolygons(shapes[r], W[r])]
    /\ pc' = [pc EXCEPT ![r] = "summary"]
    /\ UNCHANGED <<cfgvars, hexvars, rng, W, counts, macro_sizes_mm, mi, ki, shapes, tgt, png, report, err>>

\* the printed summary at the end of main()
Summary(r) ==
    /\ pc[r] = "summary"
    /\ \E lines \in {ReportLines(shapes[r])} :
          IF \A n \in 1..Len(lines) : lines[n].ok
          THEN /\ report' = [report EXCEPT ![r] = lines]
               /\ pc' = [pc EXCEPT ![r] = "done"]
               /\ UNCHANGED err
          ELSE /\ pc' = [pc EXCEPT ![r] = "raised"]
               /\ err' = [err EXCEPT ![r] = "ZeroDivisionError"]
               /\ UNCHANGED report
    /\ UNCHANGED <<cfgvars, hexvars, rng, W, counts, macro_sizes_mm, mi, ki, shapes, tgt, png, svg>>

Next ==
    \E r \in Runs :
        \/ Setup(r)
        \/ MacroStep(r)
        \/ MicroStep(r)
        \/ Sort(r)
        \/ RenderPng(r)
        \/ RenderSvg(r)
        \/ Summary(r)

Spec == Init /\ [][Next]_vars

SpecTwice == InitTwice /\ [][Next]_vars

(***************************************************************************)
(* hex_to_rgb on its own: one call on an arbitrary string.                 *)
(***************************************************************************)
HexLead == {<<>>, <<" ">>}
HexMark == {<<"#">>, <<"8">>, <<>>}
HexPair == {<<"8", "1">>, <<"3", "C">>, <<"f", "F">>, <<"+", "1">>, <<"-", "1">>,
            <<" ", "1">>, <<"1", " ">>, <<"g", "0">>, <<"7">>}
HexTail == {<<>>, <<" ">>, <<"0">>}
HexInputs == {l \o m \o a \o b \o c \o t :
                 l \in HexLead, m \in HexMark, a \in HexPair, b \in HexPair, c \in HexPair,
                 t \in HexTail}

InitHex ==
    /\ seed = 0 /\ tile_mm = 1 /\ px_per_mm = 1 /\ macro_count = 0 /\ micro_count = 0
    /\ RunInit({})
    /\ h_in \in HexInputs
    /\ h_out = NoCall

HexCall ==
    /\ ~h_out.called
    /\ h_out' = [called |-> TRUE] @@ hex_to_rgb(h_in)
    /\ UNCHANGED <<cfgvars, runvars, h_in>>

NextHex == HexCall

SpecHex == InitHex /\ [][NextHex]_vars


(***************************************************************************)
(* Properties.                                                             *)
(***************************************************************************)
\* generate_camo has returned its (W, shapes) to main()
Returned(r) == pc[r] \in {"render_png", "render_svg", "summary", "done"}
\* the head of generate_camo has run
SetUp(r) == pc[r] \notin {"off", "start"}
PngDone(r) == pc[r] \in {"render_svg", "summary", "done"}
SvgDone(r) == pc[r] \in {"summary", "done"}

HasZ(shp, z) == \E i \in 1..Len(shp) : shp[i].z = z
HasKey(shp, k) == \E i \in 1..Len(shp) : shp[i].color_key = k

\* C1: two runs on the same seed and configuration return the same tile
\* size and the same shape list, element by element: same length, and at
\* every position the same polygon points, the same color_key and the same z.
C1_Determinism ==
    \A a \in Runs : \A b \in Runs :
        (Returned(a) /\ Returned(b)) =>
            /\ W[a] = W[b]
            /\ Len(shapes[a]) = Len(shapes[b])
            /\ \A i \in 1..Len(shapes[a]) :
                 /\ shapes[a][i].poly = shapes[b][i].poly
                 /\ shapes[a][i].color_key = shapes[b][i].color_key
                 /\ shapes[a][i].z = shapes[b][i].z

C1_Witness ==
    /\ Returned(1) /\ Returned(2)
    /\ HasZ(shapes[1], 10) /\ HasZ(shapes[1], 30)
    /\ Len(shapes[2]) >= 4

\* the 9 points lists render_svg wrote for the k-th shape of run r
SvgInstances(r, k) == [n \in 1..9 |-> svg[r][2 + 9 * (k - 1) + n].points]

Offsets(S) == {0 - S, 0, S} \X {0 - S, 0, S}

IsTranslate(q, poly, off) ==
    /\ Len(q) = Len(poly)
    /\ \A i \in 1..Len(poly) : q[i] = << poly[i][1] + off[1], poly[i][2] + off[2] >>

\* one instance per offset, none repeated, none missing
OnePerOffset(inst, poly, S) ==
    /\ Len(inst) = 9
    /\ \A n \in 1..9 : \E off \in Offsets(S) : IsTranslate(inst[n], poly, off)
    /\ \A off \in Offsets(S) :
         Cardinality({n \in 1..9 : IsTranslate(inst[n], poly, off)}) = 1
    /\ \E n \in 1..9 : inst[n] = poly /\ IsTranslate(inst[n], poly, <<0, 0>>)

\* C2, as stated: for every tile size S the 9 wrapped instances of every
\* shape are the translates by the offsets {-S,0,S} x {-S,0,S}, one per
\* offset, none repeated, and the one for (0,0) is the polygon itself.
C2_AsStated ==
    \A r \in Runs : SvgDone(r) =>
        /\ Len(svg[r]) = 2 + 9 * Len(shapes[r])
        /\ \A k \in 1..Len(shapes[r]) :
             OnePerOffset(SvgInstances(r, k), shapes[r][k].poly, W[r])

\* C2, amended: for every tile size S # 0 the 9 wrapped instances are the
\* translates by the 9 offsets, one per offset, the one for (0,0) being the
\* polygon itself; for S = 0 there are 9 instances too, all equal to the
\* polygon.
C2_WrapComplete ==
    \A r \in Runs : SvgDone(r) =>
        /\ Len(svg[r]) = 2 + 9 * Len(shapes[r])
        /\ \A k \in 1..Len(shapes[r]) :
             IF W[r] # 0
             THEN OnePerOffset(SvgInstances(r, k), shapes[r][k].poly, W[r])
             ELSE \A n \in 1..9 : SvgInstances(r, k)[n] = shapes[r][k].poly

C2_Witness ==
    \E r \in Runs : SvgDone(r) /\ W[r] # 0 /\ Len(shapes[r]) >= 2

\* C3: in the returned list every macro shape (z = 10) is at a lower index
\* than every micro shape (z = 30).
C3_DrawOrder ==
    \A r \in Runs : Returned(r) =>
        \A i \in 1..Len(shapes[r]) : \A j \in 1..Len(shapes[r]) :
            (shapes[r][i].z = 10 /\ shapes[r][j].z = 30) => i < j

C3_Witness ==
    \E r \in Runs : Returned(r) /\ HasZ(shapes[r], 10) /\ HasZ(shapes[r], 30)

\* C4: at every point of generation and in the returned list every
\* color_key is one of the 4 palette keys, a macro shape (z = 10) has C1 or
\* C3 and a micro shape (z = 30) has C4 or C2.
C4_RolePartition ==
    \A r \in Runs : \A i \in 1..Len(shapes[r]) :
        /\ shapes[r][i].color_key \in DOMAIN PALETTE
        /\ shapes[r][i].z \in {10, 30}
        /\ shapes[r][i].z = 10 => shapes[r][i].color_key \in {"C1", "C3"}
        /\ shapes[r][i].z = 30 => shapes[r][i].color_key \in {"C4", "C2"}

C4_Witness ==
    \E r \in Runs : \A k \in DOMAIN PALETTE : HasKey(shapes[r], k)

\* C5: for macro_count >= 1 and micro_count >= 0 generation returns, and the
\* returned list is exactly macro_count shapes with z = 10 followed by
\* exactly micro_count shapes with z = 30.
C5_ShapeCounts ==
    \A r \in Runs : (macro_count >= 1 /\ micro_count >= 0) =>
        /\ pc[r] # "raised"
        /\ SetUp(r) => /\ counts[r].n_mid + counts[r].n_big + counts[r].n_huge = macro_count
                       /\ Len(macro_sizes_mm[r]) = macro_count
        /\ Returned(r) =>
             /\ Len(shapes[r]) = macro_count + micro_count
             /\ \A i \in 1..Len(shapes[r]) :
                  shapes[r][i].z = (IF i <= macro_count THEN 10 ELSE 30)

C5_Witness ==
    \E r \in Runs : Returned(r) /\ macro_count = MaxMacro /\ micro_count = MaxMicro

WellFormedHex(h) ==
    /\ Len(h) = 7
    /\ h[1] = "#"
    /\ \A i \in 2..7 : IsHexDigit(h[i])

ByteOf(h, i) == 16 * (IndexOf(HexDigits, LowerChar(h[i])) - 1)
                + IndexOf(HexDigits, LowerChar(h[i + 1])) - 1

\* C6: hex_to_rgb succeeds only on '#' followed by 6 hex digits, 7
\* characters in all, and then returns the three bytes of the digit pairs;
\* on every other string it fails and returns nothing.
C6_HexValidation ==
    h_out.called =>
        /\ h_out.ok <=> WellFormedHex(h_in)
        /\ h_out.ok => /\ h_out.v = <<ByteOf(h_in, 2), ByteOf(h_in, 4), ByteOf(h_in, 6)>>
                       /\ \A i \in 1..3 : h_out.v[i] \in 0..255
        /\ ~h_out.ok => h_out.v = <<>> /\ h_out.err # ""

\* C7: generate_camo never raises, whatever the two counts are, and returns
\* the empty list when macro_count <= 0.
C7_NeverRaises ==
    \A r \in Runs :
        /\ pc[r] # "raised"
        /\ err[r] = ""
        /\ (Returned(r) /\ macro_count <= 0) => shapes[r] = <<>>

\* C8: with macro_count = 0 and micro_count = 0 the returned list is empty,
\* both renderers draw the C3 background and no polygon, and the summary
\* does not divide by zero; whenever the total area is 0 the 4 ratios,
\* reported in the order C1, C3, C2, C4, are 0.
C8_EmptyRun ==
    \A r \in Runs :
        /\ (macro_count = 0 /\ micro_count = 0) =>
             /\ pc[r] # "raised"
             /\ Returned(r) => shapes[r] = <<>>
             /\ PngDone(r) => /\ png[r].polys = <<>>
                              /\ png[r].bg = <<75, 83, 32>>
                              /\ png[r].size = <<W[r], W[r]>>
             /\ SvgDone(r) => /\ Len(svg[r]) = 2
                              /\ svg[r][2].tag = "rect"
                              /\ svg[r][2].fill = PALETTE["C3"]
             /\ pc[r] = "done" => report[r][1].total = 0
        /\ err[r] # "ZeroDivisionError"
        /\ pc[r] = "done" =>
             /\ [n \in 1..Len(report[r]) |-> report[r][n].key] = <<"C1", "C3", "C2", "C4">>
             /\ report[r][1].total = 0 => \A n \in 1..4 : report[r][n].ratio = 0

C8_Witness ==
    \E r \in Runs : pc[r] = "done" /\ macro_count = 0 /\ micro_count = 0
                    /\ report[r][1].total = 0

\* C9: in every iteration of the micro loop the list the anchor target is
\* drawn from holds macro shapes only, and the target drawn is a macro shape.
C9_MacroTarget ==
    \A r \in Runs :
        /\ tgt[r].i >= 0 => tgt[r].z = 10
        /\ (pc[r] = "generate" /\ mi[r] = Len(macro_sizes_mm[r]) /\ ki[r] < micro_count) =>
              \A i \in 1..Len(shapes[r]) : shapes[r][i].z = 10

\* C10, as stated: for macro_count = 1 the huge-class count is negative.
C10_AsStated ==
    \A r \in Runs : (SetUp(r) /\ macro_count = 1) => counts[r].n_huge < 0

\* C10, amended: the huge-class count is never negative for macro_count >= 0
\* (for macro_count = 1 it is 1, the other two counts being 0); it is
\* negative for macro_count = -1.
C10_HugeRemainder ==
    \A r \in Runs : SetUp(r) =>
        /\ macro_count >= 0 => counts[r].n_huge >= 0
        /\ macro_count = 1 => counts[r] = [n_mid |-> 0, n_big |-> 0, n_huge |-> 1]
        /\ macro_count = 0 - 1 => counts[r].n_huge < 0

C10_Witness ==
    \E r \in Runs : SetUp(r) /\ macro_count = 1 /\ Len(shapes[r]) = 1 /\ shapes[r][1].z = 10

====
